---- MODULE Spec2Model ----
(***************************************************************************)
(* Model of aiflearn/algorithms/transformer.py: the provenance decorator   *)
(* addmetadata, the class-wide application of it (ApplyDecorator) and the  *)
(* Transformer lifecycle contract.                                         *)
(*                                                                         *)
(* Objects live in heaps and are named by their index:                     *)
(*   metadata[d]   the object held by Dataset d's `metadata` attribute     *)
(*   mappings[m]   the contents of metadata dict object m                  *)
(*   instances[t]  a Transformer instance: class, `_params`, fitted flag   *)
(*   kwargsObjs[p] the contents of a constructor's **kwargs dict object p  *)
(***************************************************************************)
EXTENDS Integers, Sequences, FiniteSets, TLC

VARIABLES metadata, mappings, instances, kwargsObjs, held, ctorKw, stampedBy,
          work, last, done

vars == <<metadata, mappings, instances, kwargsObjs, held, ctorKw, stampedBy,
          work, last, done>>

(* ------------------------------ bounds --------------------------------- *)
\* instances the caller constructs
MaxInst == 1
\* the size of a run: method calls made plus arguments passed to them
MaxWork == 4

(* ------------------------------ values --------------------------------- *)
\* what a Dataset's `metadata` attribute holds when it is no dict: the
\* attribute is missing, or it is an object without copy() (None)
NoAttr == 0
NotMap == -1
\* an instance whose constructor never set `_params`
NoParams == 0

\* values passed and returned: a Dataset, a Transformer, anything else, or
\* an exception on its way to the caller
Ds(d) == [t |-> "Dataset", id |-> d, e |-> "", msg |-> ""]
Inst(i) == [t |-> "Transformer", id |-> i, e |-> "", msg |-> ""]
Other(n) == [t |-> "other", id |-> n, e |-> "", msg |-> ""]
None == Other(0)
Raise(e, msg) == [t |-> "raise", id |-> 0, e |-> e, msg |-> msg]

Raised(v) == v.t = "raise"

isinstance_Transformer(v) == v.t = "Transformer"

\* (mutant) any object of the library passes for a Dataset
isinstance_DatasetLoose(v) == v.t \in {"Dataset", "Transformer"}
\* isinstance(v, Dataset)
isinstance_Dataset(v) == v.t = "Dataset"

EmptyDict == [k \in {} |-> 0]

PredictMsg == "'predict' is not supported for this class. Perhaps you meant 'transform' or 'fit_predict' instead?"
TransformMsg == "'transform' is not supported for this class. Perhaps you meant 'predict' or 'fit_transform' instead?"

Lifecycle == {"fit", "predict", "transform", "fit_predict", "fit_transform"}

(* ------------------------------ classes -------------------------------- *)
Classes == {"FitOnly", "Fresh", "Same", "Multi", "NoParams", "BadMeta"}

\* the functions each class body defines (its namespace)
ClassDict(c) ==
    CASE c = "Transformer" -> Lifecycle \cup {"__init__"}
      [] c = "FitOnly"     -> {"__init__", "fit"}
      [] c = "Fresh"       -> {"__init__", "fit", "predict", "transform"}
      [] c = "Same"        -> {"__init__", "predict"}
      [] c = "Multi"       -> {"__init__", "predict", "transform"}
      [] c = "NoParams"    -> {"__init__", "predict", "transform"}
      [] c = "BadMeta"     -> {"__init__", "predict", "transform"}

\* methods a class body decorates with @addmetadata by hand
ManuallyDecorated(c) == IF c = "Fresh" THEN {"transform"} ELSE {}

\* whether a subclass constructor records its keyword arguments
RecordsParams(c) == c # "NoParams"

Dunder == {"__init__"}

\* func.__name__
NameOf(func) == func.names[Len(func.names)]

\* (mutant) the decorator without functools.wraps: the closure keeps its own name
NoWraps(func) == "wrapper"
\* functools.wraps: the wrapper takes the wrapped callable's __name__
wraps(func) == NameOf(func)

\* addmetadata(func): a wrapper closed over func, named by functools.wraps
addmetadata(func) == [func EXCEPT !.names = Append(@, wraps(func))]

\* a function object: the class body that defines it, the method it is, and
\* the __name__ of the plain function followed by that of each wrapper
PlainFunction(c, m) == [owner |-> c, body |-> m, names |-> <<m>>]

\* the metaclass decorates every plain function of a class namespace,
\* special (dunder) methods excepted
ApplyDecorator(c, m, f) == IF m \in Dunder THEN f ELSE addmetadata(f)

ClassAttr(c, m) ==
    ApplyDecorator(c, m,
        IF m \in ManuallyDecorated(c) THEN addmetadata(PlainFunction(c, m))
                                      ELSE PlainFunction(c, m))

\* attribute lookup along the method resolution order: subclass, then base
Resolve(c, m) == IF m \in ClassDict(c) THEN ClassAttr(c, m)
                                       ELSE ClassAttr("Transformer", m)

(* ------------------------------- heap ---------------------------------- *)
Heap == [metadata |-> metadata, mappings |-> mappings,
         instances |-> instances, kwargsObjs |-> kwargsObjs]

Out(h, r) == [h |-> h, r |-> r]

\* Dataset(...): a new dataset object whose metadata attribute holds `ref`
NewDataset(h, ref) == [h EXCEPT !.metadata = Append(@, ref)]

\* a new dict object with the given contents
NewDict(h, contents) == [h EXCEPT !.mappings = Append(@, contents)]

HasMapping(h, v) == /\ v.t = "Dataset"
                    /\ h.metadata[v.id] \notin {NoAttr, NotMap}

\* dataset.copy(): a new dataset whose metadata is a new dict, equal contents
DatasetCopy(h, d) ==
    LET h1 == NewDict(h, h.mappings[h.metadata[d]])
    IN  NewDataset(h1, Len(h1.mappings))

(* ------------------------- calling convention -------------------------- *)
\* def m(self, dataset): exactly one argument, positional or `dataset=`
Binds(args, kw) == Len(args) + Len(kw) = 1
Bound(args, kw) == IF Len(args) = 1 THEN args[1] ELSE kw[1]
ArityError == Raise("TypeError", "wrong arguments")

(* --------------------------- the provenance ---------------------------- *)
\* (mutant) the defining base class named instead of type(self)
FormatBase(c, n) == "Transformer" \o "." \o n
\* '{}.{}'.format(type(self).__name__, func.__name__)
Format(c, n) == c \o "." \o n

\* (mutant) datasets passed by keyword collected too
PreviousKw(args, kw) ==
    LET all == args \o kw
        ds == SelectSeq(all, isinstance_Dataset)
    IN  [i \in 1..Len(ds) |-> ds[i].id]
\* [a for a in args if isinstance(a, Dataset)]
Previous(args, kw) ==
    LET ds == SelectSeq(args, isinstance_Dataset)
    IN  [i \in 1..Len(ds) |-> ds[i].id]

\* (mutant) dict(self._params): a new dict object beside those of the heap
ParamsCopy(h, self) == Len(h.kwargsObjs) + 1
\* self._params, evaluated in the dict literal
ParamsOf(h, self) == h.instances[self].params

ProvKeys == {"transformer", "params", "previous"}

\* (mutant) setdefault-style merge: keys already present keep their values
UpdateMerge(old, rec) ==
    [k \in DOMAIN old \cup DOMAIN rec |->
        IF k \in DOMAIN old THEN old[k] ELSE rec[k]]
\* dict.update: the record's keys replace or extend the mapping's
Update(old, rec) ==
    [k \in DOMAIN old \cup DOMAIN rec |->
        IF k \in DOMAIN rec THEN rec[k] ELSE old[k]]

RECURSIVE CallFn(_, _, _, _, _)
RECURSIVE Invoke(_, _, _, _, _)

\* (mutant) line 34 left out: the returned dataset's mapping updated in place
StampInPlace(h, self, func, args, kw, d) ==
    [h EXCEPT !.mappings[h.metadata[d]] =
        Update(@, [transformer |-> Format(h.instances[self].cls, NameOf(func)),
                   params |-> ParamsOf(h, self),
                   previous |-> Previous(args, kw)])]
\* lines 34-39 for a returned Dataset d with a mapping and a self with _params
Stamp(h, self, func, args, kw, d) ==
    LET h1 == NewDict(h, h.mappings[h.metadata[d]])
        m == Len(h1.mappings)
        h2 == [h1 EXCEPT !.metadata[d] = m]
    IN  [h2 EXCEPT !.mappings[m] =
            Update(@, [transformer |-> Format(h.instances[self].cls, NameOf(func)),
                       params |-> ParamsOf(h, self),
                       previous |-> Previous(args, kw)])]

\* line 34 alone: metadata replaced by its shallow copy
CopyOnly(h, d) ==
    LET h1 == NewDict(h, h.mappings[h.metadata[d]])
    IN  [h1 EXCEPT !.metadata[d] = Len(h1.mappings)]

\* (mutant) the wrapper catches what func raises and returns None
wrapperSwallow(h, self, func, args, kw) ==
    LET o == CallFn(h, self, func, args, kw)
    IN  IF Raised(o.r) THEN Out(o.h, None)
        ELSE IF ~isinstance_Dataset(o.r) THEN o
        ELSE IF ~HasMapping(o.h, o.r)
             THEN Out(o.h, Raise("AttributeError", "metadata"))
        ELSE IF o.h.instances[self].params = NoParams
             THEN Out(CopyOnly(o.h, o.r.id), Raise("AttributeError", "_params"))
        ELSE Out(Stamp(o.h, self, func, args, kw, o.r.id), o.r)

\* addmetadata.wrapper, closed over func
wrapper(h, self, func, args, kw) ==
    LET o == CallFn(h, self, func, args, kw)
        new_dataset == o.r
    IN  IF Raised(new_dataset) THEN o
        ELSE IF ~isinstance_Dataset(new_dataset) THEN o
        ELSE IF ~HasMapping(o.h, new_dataset)
             THEN Out(o.h, Raise("AttributeError", "metadata"))
        ELSE IF o.h.instances[self].params = NoParams
             THEN Out(CopyOnly(o.h, new_dataset.id),
                      Raise("AttributeError", "_params"))
        ELSE Out(Stamp(o.h, self, func, args, kw, new_dataset.id), new_dataset)

(* --------------------------- method bodies ----------------------------- *)
\* Transformer.fit: return self
Transformer_fit(h, self, args, kw) ==
    IF ~Binds(args, kw) THEN Out(h, ArityError) ELSE Out(h, Inst(self))

\* (mutant) predict checks for a fit first and raises NotFittedError
Transformer_predict_checked(h, self, args, kw) ==
    IF ~Binds(args, kw) THEN Out(h, ArityError)
    ELSE IF ~h.instances[self].fitted
         THEN Out(h, Raise("NotFittedError", "fit first"))
    ELSE Out(h, Raise("NotImplementedError", PredictMsg))

\* Transformer.predict: raise NotImplementedError
Transformer_predict(h, self, args, kw) ==
    IF ~Binds(args, kw) THEN Out(h, ArityError)
    ELSE Out(h, Raise("NotImplementedError", PredictMsg))

\* Transformer.transform: raise NotImplementedError
Transformer_transform(h, self, args, kw) ==
    IF ~Binds(args, kw) THEN Out(h, ArityError)
    ELSE Out(h, Raise("NotImplementedError", TransformMsg))

\* self.fit(dataset).<second>(dataset)
FitThen(h, self, second, args, kw) ==
    IF ~Binds(args, kw) THEN Out(h, ArityError)
    ELSE LET dataset == Bound(args, kw)
             f == Invoke(h, self, "fit", <<dataset>>, <<>>)
         IN  IF Raised(f.r) THEN f
             ELSE IF ~isinstance_Transformer(f.r)
                  THEN Out(f.h, Raise("AttributeError", second))
             ELSE Invoke(f.h, f.r.id, second, <<dataset>>, <<>>)

\* (mutant) fit_predict composed with transform
Transformer_fit_predict_transform(h, self, args, kw) ==
    FitThen(h, self, "transform", args, kw)

\* Transformer.fit_predict
Transformer_fit_predict(h, self, args, kw) ==
    FitThen(h, self, "predict", args, kw)

\* Transformer.fit_transform
Transformer_fit_transform(h, self, args, kw) ==
    FitThen(h, self, "transform", args, kw)

\* a subclass fit that trains: self.fitted = True; return self
Sub_fit(h, self, args, kw) ==
    IF ~Binds(args, kw) THEN Out(h, ArityError)
    ELSE Out([h EXCEPT !.instances[self].fitted = TRUE], Inst(self))

\* a subclass method returning dataset.copy(), after a fitted check if asked
Sub_copy(h, self, args, kw, needsFit) ==
    IF ~Binds(args, kw) THEN Out(h, ArityError)
    ELSE IF needsFit /\ ~h.instances[self].fitted
         THEN Out(h, Raise("NotFittedError", "fit first"))
    ELSE IF ~HasMapping(h, Bound(args, kw))
         THEN Out(h, Raise("AttributeError", "copy"))
    ELSE LET h1 == DatasetCopy(h, Bound(args, kw).id)
         IN  Out(h1, Ds(Len(h1.metadata)))

\* a subclass method returning a new dataset that shares the input's mapping
Sub_shallow(h, self, args, kw) ==
    IF ~Binds(args, kw) THEN Out(h, ArityError)
    ELSE IF ~HasMapping(h, Bound(args, kw))
         THEN Out(h, Raise("AttributeError", "copy"))
    ELSE LET h1 == NewDataset(h, h.metadata[Bound(args, kw).id])
         IN  Out(h1, Ds(Len(h1.metadata)))

\* a subclass method returning its argument itself
Sub_same(h, self, args, kw) ==
    IF ~Binds(args, kw) THEN Out(h, ArityError) ELSE Out(h, Bound(args, kw))

\* a subclass method (self, *args, **kwargs) returning a dataset made anew
Sub_new(h, self, args, kw) ==
    LET h1 == NewDict(h, EmptyDict)
        h2 == NewDataset(h1, Len(h1.mappings))
    IN  Out(h2, Ds(Len(h2.metadata)))

\* a subclass method (self, *args, **kwargs) returning None
Sub_none(h, self, args, kw) == Out(h, None)

\* a subclass method returning a Dataset whose metadata is `ref` (no mapping)
Sub_bad(h, self, args, kw, ref) ==
    IF ~Binds(args, kw) THEN Out(h, ArityError)
    ELSE LET h1 == NewDataset(h, ref)
         IN  Out(h1, Ds(Len(h1.metadata)))

\* the plain function `body` of class namespace `owner`
Body(h, self, owner, body, args, kw) ==
    CASE owner = "Transformer" /\ body = "fit" -> Transformer_fit(h, self, args, kw)
      [] owner = "Transformer" /\ body = "predict" -> Transformer_predict(h, self, args, kw)
      [] owner = "Transformer" /\ body = "transform" -> Transformer_transform(h, self, args, kw)
      [] owner = "Transformer" /\ body = "fit_predict" -> Transformer_fit_predict(h, self, args, kw)
      [] owner = "Transformer" /\ body = "fit_transform" -> Transformer_fit_transform(h, self, args, kw)
      [] owner \in {"FitOnly", "Fresh"} /\ body = "fit" -> Sub_fit(h, self, args, kw)
      [] owner = "Fresh" /\ body = "predict" -> Sub_copy(h, self, args, kw, TRUE)
      [] owner = "Fresh" /\ body = "transform" -> Sub_shallow(h, self, args, kw)
      [] owner = "Same" /\ body = "predict" -> Sub_same(h, self, args, kw)
      [] owner = "Multi" /\ body = "predict" -> Sub_new(h, self, args, kw)
      [] owner = "Multi" /\ body = "transform" -> Sub_none(h, self, args, kw)
      [] owner = "NoParams" /\ body = "predict" -> Sub_copy(h, self, args, kw, FALSE)
      [] owner = "NoParams" /\ body = "transform" -> Sub_same(h, self, args, kw)
      [] owner = "BadMeta" /\ body = "predict" -> Sub_bad(h, self, args, kw, NoAttr)
      [] owner = "BadMeta" /\ body = "transform" -> Sub_bad(h, self, args, kw, NotMap)

\* the function the closure of a wrapper holds
Wrapped(fn) == [fn EXCEPT !.names = SubSeq(@, 1, Len(@) - 1)]

\* calling a function object: a plain function, or a wrapper around one
CallFn(h, self, fn, args, kw) ==
    IF Len(fn.names) = 1 THEN Body(h, self, fn.owner, fn.body, args, kw)
    ELSE wrapper(h, self, Wrapped(fn), args, kw)

\* self.<m>(*args, **kw): look the method up on type(self) and call it
Invoke(h, self, m, args, kw) ==
    CallFn(h, self, Resolve(h.instances[self].cls, m), args, kw)

(* ------------------------------ actions -------------------------------- *)
Kwargs == {[seed |-> 1]}

RawMetadata == [note |-> "raw"]

NoHeap == [metadata |-> <<>>, mappings |-> <<>>, instances |-> <<>>,
           kwargsObjs |-> <<>>]

NoCall == [inst |-> 0, method |-> "", args |-> <<>>, kw |-> <<>>,
           r |-> None, pre |-> NoHeap]

\* the caller holds one dataset of its own making; nothing is constructed yet
Init ==
    /\ mappings = <<RawMetadata>>
    /\ metadata = <<1>>
    /\ instances = <<>>
    /\ kwargsObjs = <<>>
    /\ held = {1}
    /\ ctorKw = <<>>
    /\ stampedBy = <<0>>
    /\ work = 0
    /\ last = NoCall
    /\ done = FALSE

\* the size of a call: the call itself and each argument passed to it
Cost(args, kw) == 1 + Len(args) + Len(kw)

\* Cls(**kwargs): Transformer.__init__ stores the kwargs dict as self._params
Construct(c, kwargs) ==
    /\ ~done
    /\ work = 0
    /\ Len(instances) < MaxInst
    /\ kwargsObjs' = Append(kwargsObjs, kwargs)
    /\ instances' = Append(instances,
            [cls |-> c, fitted |-> FALSE,
             params |-> IF RecordsParams(c) THEN Len(kwargsObjs) + 1
                                            ELSE NoParams])
    /\ ctorKw' = Append(ctorKw, kwargs)
    /\ UNCHANGED <<metadata, mappings, held, stampedBy, work, last, done>>

ArgValues == {Ds(d) : d \in held} \cup {Other(5)}

\* `dataset=` is passed with at most one positional argument beside it
KwSeqs(n) == IF n <= 1 THEN {<<>>} \cup {<<Ds(d)>> : d \in held} ELSE {<<>>}

\* the caller calls t.m(*args), or t.m(*args, dataset=kw[1]). `last` is a
\* history variable: it records, with the state before it, the one call the
\* run ends with (observe), so that any call from any reachable state is seen
Call(t, m, args, kw, observe) ==
    /\ ~done
    /\ work + Cost(args, kw) <= MaxWork
    /\ LET o == Invoke(Heap, t, m, args, kw)
       IN  /\ metadata' = o.h.metadata
           /\ mappings' = o.h.mappings
           /\ instances' = o.h.instances
           /\ kwargsObjs' = o.h.kwargsObjs
           /\ held' = IF isinstance_Dataset(o.r) THEN held \cup {o.r.id} ELSE held
           /\ stampedBy' = [d \in 1..Len(o.h.metadata) |->
                              IF o.r = Ds(d) THEN t
                              ELSE IF d <= Len(stampedBy) THEN stampedBy[d]
                              ELSE 0]
           /\ last' = IF observe
                       THEN [inst |-> t, method |-> m, args |-> args, kw |-> kw,
                             r |-> o.r, pre |-> Heap]
                       ELSE last
    /\ done' = observe
    /\ work' = work + Cost(args, kw)
    /\ UNCHANGED ctorKw

Next ==
    \/ \E c \in Classes, kwargs \in Kwargs : Construct(c, kwargs)
    \/ \E t \in 1..Len(instances), m \in Lifecycle :
         \E n \in 0..(MaxWork - work) :
           \E args \in [1..n -> ArgValues], kw \in KwSeqs(n), observe \in BOOLEAN :
             Call(t, m, args, kw, observe)

Spec == Init /\ [][Next]_vars

(* ======================= properties of the model ======================= *)
\* the call the run ended with, seen from its caller
Self == last.inst
SelfClass == last.pre.instances[last.inst].cls
Called == Resolve(SelfClass, last.method)
IsDs(v) == v.t = "Dataset"
ReturnedDs == done /\ IsDs(last.r)
\* the mapping a dataset's metadata holds, now and before the call
Meta(d) == mappings[metadata[d]]
PreMeta(d) == last.pre.mappings[last.pre.metadata[d]]
HadMapping(d) == d <= Len(last.pre.metadata) /\ last.pre.metadata[d] > 0
\* the datasets passed to the call, by position or by keyword
PassedDs == {last.args[i].id : i \in {j \in DOMAIN last.args : IsDs(last.args[j])}}
              \cup {last.kw[i].id : i \in {j \in DOMAIN last.kw : IsDs(last.kw[j])}}
\* what the callable held by the outermost wrapper did on the same call
FuncOut == CallFn(last.pre, Self, Wrapped(Called), last.args, last.kw)
\* what the plain function under every wrapper did on the same call
PlainOut == Body(last.pre, Self, Called.owner, Called.body, last.args, last.kw)
\* the second step of a composed method
Second == IF last.method = "fit_predict" THEN "predict" ELSE "transform"
Composed == done /\ last.method \in {"fit_predict", "fit_transform"}
              /\ Binds(last.args, last.kw)
\* the caller doing the two steps itself: t.fit(ds), then t.predict(ds)
StepFit == Invoke(last.pre, Self, "fit", <<Bound(last.args, last.kw)>>, <<>>)
StepSecond == Invoke(StepFit.h, StepFit.r.id, Second,
                     <<Bound(last.args, last.kw)>>, <<>>)
\* the datasets of a sequence of at most one value
DsOf(vs) == IF vs # <<>> /\ IsDs(vs[1]) THEN <<vs[1].id>> ELSE <<>>
OtherKeys(m) == DOMAIN m \ {"transformer", "params", "previous"}
SameOtherKeys(m1, m2) == /\ OtherKeys(m1) = OtherKeys(m2)
                         /\ \A k \in OtherKeys(m1) : m1[k] = m2[k]

HandsBack(a) ==
    LET tm == IF last.method \in {"fit_predict", "fit_transform"}
              THEN Second ELSE last.method
        fn == Resolve(SelfClass, tm)
    IN  Body(last.pre, Self, fn.owner, fn.body, <<Ds(a)>>, <<>>).r = Ds(a)

\* C2 (as stated): every Dataset passed to a provenance-wrapped call has,
\* after the call, the same metadata mapping with the same contents as before,
\* whatever the method body returns.
C2_AsStated ==
    done => \A a \in PassedDs :
               /\ metadata[a] = last.pre.metadata[a]
               /\ Meta(a) = PreMeta(a)

\* C2 (amended): a provenance-wrapped call changes the contents of no metadata
\* mapping that existed before it, and every Dataset passed to it keeps that
\* same mapping as its metadata, except a dataset the method hands back as its
\* return value: being the returned dataset, it gets a new mapping holding the
\* old one's keys (and the provenance record, when stamping succeeds).
C2_InputsKept ==
    done =>
        /\ \A m \in 1..Len(last.pre.mappings) : mappings[m] = last.pre.mappings[m]
        /\ \A a \in PassedDs :
             \/ metadata[a] = last.pre.metadata[a]
             \/ /\ HandsBack(a)
                /\ metadata[a] > Len(last.pre.mappings)
                /\ SameOtherKeys(Meta(a), PreMeta(a))
        /\ \A a \in PassedDs :
             (IsDs(last.r) /\ last.r.id # a) => metadata[a] = last.pre.metadata[a]

\* a call whose method returned a new dataset sharing the input's mapping
C2_Witness ==
    /\ ReturnedDs
    /\ SelfClass = "Fresh" /\ last.method = "transform"
    /\ \E a \in PassedDs :
          /\ last.r.id # a
          /\ PlainOut.h.metadata[last.r.id] = last.pre.metadata[a]
          /\ metadata[a] = last.pre.metadata[a]
          /\ Meta(a) = PreMeta(a)
          /\ Meta(last.r.id) # Meta(a)

(* ---- C3 ---- *)
\* C3: the dataset a wrapped method returns has metadata['transformer'] equal
\* to '<ClassName>.<MethodName>': the class of the instance, the method called.
C3_TransformerName ==
    ReturnedDs =>
        Meta(last.r.id).transformer = SelfClass \o "." \o last.method

\* a method decorated by hand as well as by the metaclass
C3_Witness ==
    /\ ReturnedDs
    /\ Len(Called.names) > 2
    /\ Meta(last.r.id).transformer = "Fresh.transform"

(* ---- C4 ---- *)
DsPositions == {i \in DOMAIN last.args : IsDs(last.args[i])}
\* the position in args of the j-th dataset among them
NthDs(j) == CHOOSE i \in DsPositions :
               Cardinality({k \in DsPositions : k <= i}) = j

C5_Params ==
    /\ kwargsObjs = ctorKw
    /\ \A d \in 1..Len(metadata) :
          stampedBy[d] # 0 =>
             /\ metadata[d] > 0
             /\ instances[stampedBy[d]].params # NoParams
             /\ Meta(d).params = instances[stampedBy[d]].params
             /\ kwargsObjs[instances[stampedBy[d]].params] = ctorKw[stampedBy[d]]

\* two datasets produced by one instance in two calls
C5_Witness ==
    \E d1, d2 \in 1..Len(metadata) :
        /\ d1 # d2
        /\ stampedBy[d1] # 0 /\ stampedBy[d1] = stampedBy[d2]
        /\ Meta(d1).params = Meta(d2).params
        /\ Meta(d1).transformer # Meta(d2).transformer

(* ---- C6 ---- *)
\* C6: when the wrapped method returns something that is not a Dataset, the
\* caller gets that very value, no metadata attribute and no mapping is
\* touched, and nothing is raised; the default fit returns self and leaves
\* the whole state as it was.
C6_PassThrough ==
    done =>
        /\ (~Raised(FuncOut.r) /\ ~IsDs(FuncOut.r)) =>
              /\ last.r = FuncOut.r
              /\ Heap = FuncOut.h
              /\ metadata = last.pre.metadata
              /\ mappings = last.pre.mappings
        /\ (last.method = "fit" /\ "fit" \notin ClassDict(SelfClass)
              /\ Binds(last.args, last.kw)) =>
              /\ last.r = Inst(Self)
              /\ Heap = last.pre

\* the default fit, called on an instance that then returns itself
C6_Witness ==
    /\ done /\ last.method = "fit" /\ "fit" \notin ClassDict(SelfClass)
    /\ last.r = Inst(Self)
    /\ IsDs(Bound(last.args, last.kw))

(* ---- C7 ---- *)
Unsupported(m) ==
    Raise("NotImplementedError", IF m = "predict" THEN PredictMsg ELSE TransformMsg)

\* C7: on a subclass that overrides neither, predict(ds) and transform(ds)
\* raise the unsupported-operation error naming the alternatives, fitted or
\* not, and leave the whole state as it was; fit_predict(ds) and
\* fit_transform(ds) run fit and then raise that same error, no dataset being
\* made or stamped.
C7_Unsupported ==
    done =>
        /\ (/\ last.method \in {"predict", "transform"}
            /\ last.method \notin ClassDict(SelfClass)
            /\ Binds(last.args, last.kw)) =>
              /\ last.r = Unsupported(last.method)
              /\ Heap = last.pre
        /\ (Composed /\ Second \notin ClassDict(SelfClass)) =>
              /\ last.r = Unsupported(Second)
              /\ Heap = StepFit.h
              /\ metadata = last.pre.metadata
              /\ mappings = last.pre.mappings
              /\ "fit" \in ClassDict(SelfClass) => instances[Self].fitted

\* predict called after a fit that trained the instance
C7_Witness ==
    /\ done /\ last.method = "predict" /\ "predict" \notin ClassDict(SelfClass)
    /\ last.pre.instances[Self].fitted
    /\ last.r.e = "NotImplementedError"

(* ---- C8 ---- *)
\* C8 (as stated): for every instance, with or without a parameter record,
\* the wrapper raises where the wrapped method did not only if the returned
\* Dataset has no metadata mapping to copy and update; and when the wrapped
\* method raises, the caller gets that error and no metadata is modified.
C8_AsStated ==
    done =>
        /\ (~Raised(FuncOut.r) /\ Raised(last.r)) =>
              (IsDs(FuncOut.r) /\ FuncOut.h.metadata[FuncOut.r.id] <= 0)
        /\ Raised(FuncOut.r) => (last.r = FuncOut.r /\ Heap = FuncOut.h)

\* C8 (amended): the wrapper raises where the wrapped method did not only
\* when that method returned a Dataset and either the Dataset has no metadata
\* mapping to copy and update or the instance has no parameter record
\* (_params); in the second case the dataset's metadata has by then been
\* replaced by a copy of itself. When the wrapped method raises, the caller
\* gets that error and the state exactly as the method left it.
C8_WrapperRaises ==
    done =>
        /\ Raised(FuncOut.r) => (last.r = FuncOut.r /\ Heap = FuncOut.h)
        /\ (~Raised(FuncOut.r) /\ Raised(last.r)) =>
              /\ IsDs(FuncOut.r)
              /\ last.r.e = "AttributeError"
              /\ \/ /\ FuncOut.h.metadata[FuncOut.r.id] <= 0
                    /\ Heap = FuncOut.h
                 \/ /\ FuncOut.h.metadata[FuncOut.r.id] > 0
                    /\ instances[Self].params = NoParams
                    /\ metadata[FuncOut.r.id] > Len(FuncOut.h.mappings)
                    /\ Meta(FuncOut.r.id) =
                          FuncOut.h.mappings[FuncOut.h.metadata[FuncOut.r.id]]
        /\ (instances[Self].params # NoParams /\ IsDs(FuncOut.r)
              /\ FuncOut.h.metadata[FuncOut.r.id] > 0) => ~Raised(last.r)

\* an instance without _params whose method returned a dataset
C8_Witness ==
    /\ done /\ IsDs(FuncOut.r) /\ Raised(last.r)
    /\ instances[Self].params = NoParams
    /\ metadata[FuncOut.r.id] # FuncOut.h.metadata[FuncOut.r.id]

(* ---- C9 ---- *)
\* the returned dataset's mapping as the wrapped method left it
Unstamped == FuncOut.h.mappings[FuncOut.h.metadata[last.r.id]]
\* the call was fed a dataset an earlier call had stamped
Chained == \E a \in PassedDs : HadMapping(a) /\ "transformer" \in DOMAIN PreMeta(a)

\* C9 (as stated): the returned dataset's metadata holds exactly the last
\* call's 'transformer', 'params' and 'previous' and every other key the
\* method's returned dataset had, and the record any dataset carried before
\* the call is not revised by the call.
C9_AsStated ==
    ReturnedDs =>
        /\ Meta(last.r.id).transformer = SelfClass \o "." \o last.method
        /\ Meta(last.r.id).params = instances[Self].params
        /\ Meta(last.r.id).previous =
              [j \in 1..Cardinality(DsPositions) |-> last.args[NthDs(j)].id]
        /\ SameOtherKeys(Meta(last.r.id), Unstamped)
        /\ \A d \in 1..Len(last.pre.metadata) :
              (HadMapping(d) /\ "transformer" \in DOMAIN PreMeta(d)) =>
                  Meta(d) = PreMeta(d)

\* C9 (amended): the returned dataset's metadata holds exactly the last
\* call's 'transformer', 'params' and 'previous', whatever record it or the
\* inputs carried, and every other key with the value the method's returned
\* dataset had for it; the mappings holding earlier records are not changed,
\* and every earlier dataset keeps its record, except a dataset that the
\* later call returns: that one carries the later call's record.
C9_Replaced ==
    ReturnedDs =>
        /\ Meta(last.r.id).transformer = SelfClass \o "." \o last.method
        /\ Meta(last.r.id).params = instances[Self].params
        /\ Meta(last.r.id).previous =
              [j \in 1..Cardinality(DsPositions) |-> last.args[NthDs(j)].id]
        /\ SameOtherKeys(Meta(last.r.id), Unstamped)
        /\ DOMAIN Meta(last.r.id) = OtherKeys(Unstamped) \cup ProvKeys
        /\ \A m \in 1..Len(last.pre.mappings) : mappings[m] = last.pre.mappings[m]
        /\ \A d \in 1..Len(last.pre.metadata) :
              d # last.r.id => metadata[d] = last.pre.metadata[d]

\* a call fed a stamped dataset whose own record differs in all three keys
C9_Witness ==
    /\ ReturnedDs /\ Chained
    /\ \E a \in PassedDs :
          /\ HadMapping(a) /\ "transformer" \in DOMAIN PreMeta(a)
          /\ a # last.r.id
          /\ "transformer" \in DOMAIN Unstamped
          /\ Meta(a) = PreMeta(a)
          /\ Meta(last.r.id).transformer # Meta(a).transformer
          /\ Meta(last.r.id).previous # Meta(a).previous
          /\ "note" \in DOMAIN Meta(last.r.id)

(* ---- C10 ---- *)
\* the same call with the method wrapped once more
Rewrapped == CallFn(last.pre, Self, addmetadata(Called), last.args, last.kw)

\* C10: wrapping a method once more changes nothing the caller can see: the
\* same value or error comes back, and a returned dataset's metadata has the
\* same contents, 'transformer' still naming the method and not the wrapper;
\* a method wrapped twice already gives what it gives wrapped once.
C10_Idempotent ==
    done =>
        /\ Rewrapped.r = last.r
        /\ IsDs(last.r) =>
              /\ Rewrapped.h.mappings[Rewrapped.h.metadata[last.r.id]] = Meta(last.r.id)
              /\ Meta(last.r.id).transformer = SelfClass \o "." \o Called.body
        /\ Len(Called.names) > 2 =>
              /\ FuncOut.r = last.r
              /\ IsDs(last.r) =>
                    FuncOut.h.mappings[FuncOut.h.metadata[last.r.id]] = Meta(last.r.id)

\* a method wrapped twice returned a dataset
C10_Witness ==
    /\ ReturnedDs
    /\ Len(Called.names) = 3
    /\ FuncOut.h.metadata[last.r.id] # metadata[last.r.id]
    /\ PassedDs # {}

====
